---------------------------- MODULE Spec2Model ----------------------------
(***************************************************************************)
(* Model of the AI spam detector of BetterForward                          *)
(* (src/src/utils/spam_detectors/ai_detector.py, class OpenAISpamDetector).*)
(*                                                                         *)
(* Representation.                                                         *)
(*  - A Python str whose characters matter (response content) is a         *)
(*    sequence of characters.  One element is one character, except that a *)
(*    JSON lexeme (a key, a number, a literal, a quoted string) is kept as *)
(*    one element: no operation of the detector cuts inside a lexeme.      *)
(*  - A JSON / Python value is a tagged record (JNull, JBool, JInt,        *)
(*    JFloat, JStr, JList, JObj).  Python None is JNull.                   *)
(*  - A float is counted in tenths (Tenths): 0.5 is 5, 1.0 is 10.          *)
(*  - self.model and self.request_timeout only travel in the request and   *)
(*    decide nothing; they are left out.                                   *)
(***************************************************************************)
EXTENDS Integers, Sequences, FiniteSets, TLC

VARIABLES
    api_key,      \* self.api_key
    base_url,     \* self.base_url (after rstrip("/"))
    threshold,    \* self.threshold, in tenths
    bot,          \* self.bot is not None
    pc,           \* where the running call is
    message,      \* detect's message argument
    context,      \* detect's / is_enabled's context argument
    user_text,    \* detect's local user_text
    image_parts,  \* _extract_image_parts' local image_parts
    netlog,       \* every network call made by the running detect, in order
    response,     \* what httpx.post produced
    outcome,      \* how detect ended: a returned verdict or a raised exception
    arg,          \* argument of the helper under check (pure-function specifications)
    ret           \* its result

vars == <<api_key, base_url, threshold, bot, pc, message, context, user_text,
          image_parts, netlog, response, outcome, arg, ret>>

detector == <<api_key, base_url, threshold, bot>>

(***************************************************************************)
(* Bounds of the model.                                                    *)
(***************************************************************************)
\* longest body string B wrapped in a fence
MaxBody == 3
\* largest magnitude, in tenths, of a finite float confidence
MaxTenths == 15

(***************************************************************************)
(* Python str as a sequence of characters.                                 *)
(***************************************************************************)
\* the backtick character (the parser accepts none inside a string: it is named)
Backtick == "BACKTICK"
Newline == "\n"
Space == " "

\* the characters str.strip() removes
Whitespace == {Space, Newline}

RECURSIVE LStrip(_, _)
\* s with its leading characters that are in cs removed
LStrip(s, cs) ==
    IF s = <<>> THEN s
    ELSE IF Head(s) \in cs THEN LStrip(Tail(s), cs) ELSE s

RECURSIVE RStrip(_, _)
\* s with its trailing characters that are in cs removed
RStrip(s, cs) ==
    IF s = <<>> THEN s
    ELSE IF s[Len(s)] \in cs THEN RStrip(SubSeq(s, 1, Len(s) - 1), cs) ELSE s

\* str.strip(): both ends
Strip(s, cs) == RStrip(LStrip(s, cs), cs)

\* str.startswith
StartsWith(s, p) == Len(s) >= Len(p) /\ SubSeq(s, 1, Len(p)) = p

RECURSIVE Split(_, _)
\* str.split(sep) for a one-character separator: the pieces, at least one
Split(s, sep) ==
    IF \A i \in 1..Len(s) : s[i] # sep THEN <<s>>
    ELSE LET i == CHOOSE i \in 1..Len(s) :
                      s[i] = sep /\ \A j \in 1..(i - 1) : s[j] # sep
         IN <<SubSeq(s, 1, i - 1)>> \o Split(SubSeq(s, i + 1, Len(s)), sep)

RECURSIVE Join(_, _)
\* sep.join(pieces)
Join(pieces, sep) ==
    IF pieces = <<>> THEN <<>>
    ELSE IF Len(pieces) = 1 THEN pieces[1]
    ELSE pieces[1] \o <<sep>> \o Join(Tail(pieces), sep)

(***************************************************************************)
(* JSON / Python values.                                                   *)
(***************************************************************************)
JNull == [t |-> "null"]
JBool(b) == [t |-> "bool", b |-> b]
\* a Python int; big marks a magnitude beyond the largest double (i keeps the sign)
JInt(i) == [t |-> "int", i |-> i, big |-> FALSE]
JBigInt(sign) == [t |-> "int", i |-> sign, big |-> TRUE]
\* a Python float: finite (f in tenths), inf, -inf or nan
JFloat(f) == [t |-> "float", f |-> f, cls |-> "finite"]
JInf == [t |-> "float", f |-> 1, cls |-> "inf"]
JNegInf == [t |-> "float", f |-> -1, cls |-> "inf"]
JNaN == [t |-> "float", f |-> 0, cls |-> "nan"]
JStr(s) == [t |-> "str", s |-> s]
JList(l) == [t |-> "list", l |-> l]
\* a dict: its members <<[k, v], ...>> in insertion order
JObj(m) == [t |-> "obj", m |-> m]
Member(k, v) == [k |-> k, v |-> v]

\* key in d
HasKey(d, k) == \E i \in 1..Len(d.m) : d.m[i].k = k

\* dict.get(key): the value of the last member named key, None when there is none
Get(d, k) ==
    IF HasKey(d, k)
    THEN LET i == CHOOSE i \in 1..Len(d.m) :
                      d.m[i].k = k /\ \A j \in (i + 1)..Len(d.m) : d.m[j].k # k
         IN d.m[i].v
    ELSE JNull

\* Python truth value: bool(v)
Truthy(v) ==
    CASE v.t = "null" -> FALSE
      [] v.t = "bool" -> v.b
      [] v.t = "int" -> v.i # 0
      [] v.t = "float" -> ~(v.cls = "finite" /\ v.f = 0)
      [] v.t = "str" -> v.s # <<>>
      [] v.t = "list" -> v.l # <<>>
      [] v.t = "obj" -> v.m # <<>>
      [] v.t = "bytes" -> v.s # <<>>
      [] OTHER -> TRUE

(***************************************************************************)
(* Results of a Python call: a value returned or an exception raised.      *)
(***************************************************************************)
Returns(v) == [ok |-> TRUE, v |-> v]
Raises(exc) == [ok |-> FALSE, exc |-> exc]

(***************************************************************************)
(* Python floats (IEEE doubles), in tenths.                                *)
(***************************************************************************)
\* n units as a count of tenths
Tenths(n) == n * 10

\* a < b on floats: false whenever either is nan
FloatLess(a, b) ==
    /\ a.cls # "nan"
    /\ b.cls # "nan"
    /\ IF a.cls = "inf" THEN a.f < 0 /\ ~(b.cls = "inf" /\ b.f < 0)
       ELSE IF b.cls = "inf" THEN b.f > 0
       ELSE a.f < b.f

\* a >= b on floats: false whenever either is nan
FloatGeq(a, b) == a.cls # "nan" /\ b.cls # "nan" /\ ~FloatLess(a, b)

\* builtin min(a, b): the first argument unless the second is smaller
PyMin(a, b) == IF FloatLess(b, a) THEN b ELSE a

\* builtin max(a, b): the first argument unless the second is larger
PyMax(a, b) == IF FloatLess(a, b) THEN b ELSE a

\* what float(str) accepts, after trimming: the text of a number, "nan", "inf"
FloatText ==
    [x \in {"0.9", "1.5", "-0.5", "0", "1", "nan", "inf"} |->
        CASE x = "0.9" -> JFloat(9)
          [] x = "1.5" -> JFloat(15)
          [] x = "-0.5" -> JFloat(-5)
          [] x = "0" -> JFloat(0)
          [] x = "1" -> JFloat(10)
          [] x = "nan" -> JNaN
          [] x = "inf" -> JInf]

\* builtin float(x)
PyFloat(x) ==
    CASE x.t \in {"null", "list", "obj"} -> Raises("TypeError")
      [] x.t = "bool" -> Returns(JFloat(IF x.b THEN Tenths(1) ELSE 0))
      [] x.t = "int" -> IF x.big THEN Raises("OverflowError")
                        ELSE Returns(JFloat(Tenths(x.i)))
      [] x.t = "float" -> Returns(x)
      [] x.t = "str" -> LET s == Strip(x.s, Whitespace)
                        IN IF Len(s) = 1 /\ s[1] \in DOMAIN FloatText
                           THEN Returns(FloatText[s[1]])
                           ELSE Raises("ValueError")

(***************************************************************************)
(* OpenAISpamDetector._safe_confidence                                     *)
(***************************************************************************)
\* the default of the threshold parameter: 0.5
DefaultThreshold == 5
\* the value substituted for a confidence that float() rejects: 0.5
DefaultConfidence == 5
\* the clamp's lower end: 0.0
ConfidenceFloor == 0
\* the clamp's upper end: 1.0
ConfidenceCeiling == 10

_safe_confidence(raw_value) ==
    LET confidence == PyFloat(raw_value)
    IN IF confidence.ok
       THEN Returns(PyMax(JFloat(ConfidenceFloor),
                          PyMin(confidence.v, JFloat(ConfidenceCeiling))))
       ELSE IF confidence.exc \in {"TypeError", "ValueError"}
            THEN Returns(JFloat(DefaultConfidence))
            ELSE confidence

(***************************************************************************)
(* json.loads on a str.  The text is a sequence of characters in which a   *)
(* scalar or key lexeme is one element; JSON whitespace between lexemes is *)
(* skipped, and the whole text must be one value.                          *)
(***************************************************************************)
\* the lexemes of JSON scalars and the values json.loads gives them
\* (Python's decoder accepts NaN, turns an out-of-range real into inf and
\* keeps an integer of any length as an int)
ScalarLexeme ==
    [x \in {"true", "false", "null", "0", "1", "0.3", "0.5", "0.9", "1.5", "-0.5",
            "1e400", "NaN", "1000..(400 zeros)", "\"\"", "\"false\"", "\"0.9\"",
            "\"high\"", "\"ad\""} |->
        CASE x = "true" -> JBool(TRUE)
          [] x = "false" -> JBool(FALSE)
          [] x = "null" -> JNull
          [] x = "0" -> JInt(0)
          [] x = "1" -> JInt(1)
          [] x = "0.3" -> JFloat(3)
          [] x = "0.5" -> JFloat(5)
          [] x = "0.9" -> JFloat(9)
          [] x = "1.5" -> JFloat(15)
          [] x = "-0.5" -> JFloat(-5)
          [] x = "1e400" -> JInf
          [] x = "NaN" -> JNaN
          [] x = "1000..(400 zeros)" -> JBigInt(1)
          [] x = "\"\"" -> JStr(<<>>)
          [] x = "\"false\"" -> JStr(<<"false">>)
          [] x = "\"0.9\"" -> JStr(<<"0.9">>)
          [] x = "\"high\"" -> JStr(<<"high">>)
          [] x = "\"ad\"" -> JStr(<<"ad">>)]

\* the lexemes of the object keys and the key each denotes
KeyLexeme ==
    [x \in {"\"spam\"", "\"confidence\"", "\"reason\""} |->
        CASE x = "\"spam\"" -> "spam"
          [] x = "\"confidence\"" -> "confidence"
          [] x = "\"reason\"" -> "reason"]

\* the text without its whitespace
SkipWhitespace(s) == SelectSeq(s, LAMBDA c : c \notin Whitespace)

Parsed(v, rest) == [ok |-> TRUE, v |-> v, rest |-> rest]
NotParsed == [ok |-> FALSE]

RECURSIVE ParseValue(_)
RECURSIVE ParseElements(_, _)
RECURSIVE ParseMembers(_, _)

\* one value at the head of the lexemes t, and what follows it
ParseValue(t) ==
    IF t = <<>> THEN NotParsed
    ELSE IF t[1] \in DOMAIN ScalarLexeme THEN Parsed(ScalarLexeme[t[1]], Tail(t))
    ELSE IF t[1] = "[" THEN ParseElements(Tail(t), <<>>)
    ELSE IF t[1] = "{" THEN ParseMembers(Tail(t), <<>>)
    ELSE NotParsed

\* the elements of a list after "[" (acc: those read so far)
ParseElements(t, acc) ==
    IF t = <<>> THEN NotParsed
    ELSE IF t[1] = "]" /\ acc = <<>> THEN Parsed(JList(acc), Tail(t))
    ELSE LET r == ParseValue(t)
         IN IF ~r.ok \/ r.rest = <<>> THEN NotParsed
            ELSE IF r.rest[1] = "]"
                 THEN Parsed(JList(Append(acc, r.v)), Tail(r.rest))
            ELSE IF r.rest[1] = ","
                 THEN ParseElements(Tail(r.rest), Append(acc, r.v))
            ELSE NotParsed

\* the members of an object after "{" (acc: those read so far)
ParseMembers(t, acc) ==
    IF t = <<>> THEN NotParsed
    ELSE IF t[1] = "}" /\ acc = <<>> THEN Parsed(JObj(acc), Tail(t))
    ELSE IF Len(t) < 3 \/ t[1] \notin DOMAIN KeyLexeme \/ t[2] # ":" THEN NotParsed
    ELSE LET r == ParseValue(SubSeq(t, 3, Len(t)))
             m == Member(KeyLexeme[t[1]], r.v)
         IN IF ~r.ok \/ r.rest = <<>> THEN NotParsed
            ELSE IF r.rest[1] = "}"
                 THEN Parsed(JObj(Append(acc, m)), Tail(r.rest))
            ELSE IF r.rest[1] = ","
                 THEN ParseMembers(Tail(r.rest), Append(acc, m))
            ELSE NotParsed

\* json.loads(s): the value, or JSONDecodeError
json_loads(s) ==
    LET r == ParseValue(SkipWhitespace(s))
    IN IF r.ok /\ r.rest = <<>> THEN Returns(r.v) ELSE Raises("JSONDecodeError")

\* builtin str(v), for the values a content part carries
PyStr(v) ==
    CASE v.t = "str" -> v.s
      [] v.t = "null" -> <<"None">>
      [] v.t = "bool" -> IF v.b THEN <<"True">> ELSE <<"False">>
      [] v.t = "int" /\ ~v.big -> <<ToString(v.i)>>

(***************************************************************************)
(* httpx responses.                                                        *)
(***************************************************************************)
\* httpx.post raised exc (no response)
PostRaised(exc) == [t |-> "raised", exc |-> exc]
\* a response with its status code; json is what response.json() does:
\* Returns(data), or Raises("JSONDecodeError") for a body that is not JSON
HttpResponse(status_code, json) ==
    [t |-> "response", status_code |-> status_code, json |-> json]

\* response.raise_for_status(): raises unless the status is 2xx
raise_for_status(resp) ==
    IF 200 <= resp.status_code /\ resp.status_code <= 299
    THEN Returns(resp) ELSE Raises("HTTPStatusError")

(***************************************************************************)
(* OpenAISpamDetector._extract_content                                     *)
(***************************************************************************)
\* choices[0] for whatever truthy value choices is
FirstOf(choices) ==
    CASE choices.t = "list" -> Returns(choices.l[1])
      [] choices.t = "str" -> Returns(JStr(<<choices.s[1]>>))
      [] choices.t = "obj" -> Raises("KeyError")
      [] OTHER -> Raises("TypeError")

\* x or y
PyOr(x, y) == IF Truthy(x) THEN x ELSE y

\* mutant: the content key of a part is preferred to its text key
TextPartsContentFirst(parts) ==
    LET textual == SelectSeq(parts, LAMBDA part :
                       part.t = "obj" /\ (HasKey(part, "text") \/ HasKey(part, "content")))
    IN [i \in 1..Len(textual) |->
           IF HasKey(textual[i], "content")
           THEN PyStr(Get(textual[i], "content"))
           ELSE PyStr(Get(textual[i], "text"))]

\* the loop over a list content: one piece per dict part with a text
\* (else a content) key, in part order
TextParts(parts) ==
    LET textual == SelectSeq(parts, LAMBDA part :
                       part.t = "obj" /\ (HasKey(part, "text") \/ HasKey(part, "content")))
    IN [i \in 1..Len(textual) |->
           IF HasKey(textual[i], "text")
           THEN PyStr(Get(textual[i], "text"))
           ELSE PyStr(Get(textual[i], "content"))]

\* the content variable before it is trimmed: Returns(value), or the exception
\* that the enclosing try catches
SelectContent(resp) ==
    IF ~resp.json.ok THEN resp.json
    ELSE LET data == resp.json.v
         IN IF data.t # "obj" THEN Raises("AttributeError")
            ELSE LET choices == PyOr(Get(data, "choices"), JList(<<>>))
                 IN IF ~Truthy(choices) THEN Returns(JNull)
                    ELSE IF ~FirstOf(choices).ok THEN FirstOf(choices)
                    ELSE LET choice == FirstOf(choices).v
                         IN IF choice.t # "obj" THEN Raises("AttributeError")
                            ELSE LET msg == PyOr(Get(choice, "message"), JObj(<<>>))
                                 IN IF msg.t # "obj" THEN Raises("AttributeError")
                                    ELSE LET given == Get(msg, "content")
                                             joined ==
                                                 IF given.t = "list"
                                                 THEN IF TextParts(given.l) # <<>>
                                                      THEN JStr(Join(TextParts(given.l), Newline))
                                                      ELSE JNull
                                                 ELSE given
                                         IN IF joined.t = "null"
                                            THEN Returns(PyOr(Get(choice, "content"),
                                                              Get(choice, "text")))
                                            ELSE Returns(joined)

Fence == <<Backtick, Backtick, Backtick>>

\* mutant: the line after the opening fence is kept
StripFenceKeepFirstLine(text) ==
    LET stripped == Strip(text, Whitespace)
    IN IF StartsWith(stripped, Fence) THEN Strip(stripped, {Backtick}) ELSE stripped

\* the trimming of a str content, fence handling included
StripFence(text) ==
    LET stripped == Strip(text, Whitespace)
    IN IF StartsWith(stripped, Fence)
       THEN LET unfenced == Strip(stripped, {Backtick})
            IN IF \E i \in 1..Len(unfenced) : unfenced[i] = Newline
               THEN Join(Tail(Split(unfenced, Newline)), Newline)
               ELSE unfenced
       ELSE stripped

\* the str extracted, or None (JNull)
_extract_content(resp) ==
    LET selected == SelectContent(resp)
    IN IF selected.ok /\ selected.v.t = "str"
       THEN JStr(StripFence(selected.v.s))
       ELSE JNull

(***************************************************************************)
(* The detector and its inputs.                                            *)
(***************************************************************************)
\* the api_key arguments: None, empty, a key
ApiKeys == {JNull, JStr(<<>>), JStr(<<"k">>)}
\* the base_url arguments, as the caller supplies them
BaseUrls == {<<>>, <<"/">>, <<"u">>, <<"u", "/">>, <<"u", "/", "/">>}
\* the threshold arguments, in tenths
Thresholds == {DefaultThreshold, 9}

\* __init__: the fields after construction
Constructed(key, url, thr, has_bot) ==
    /\ api_key = key
    /\ base_url = JStr(RStrip(url, {"/"}))
    /\ threshold = thr
    /\ bot = has_bot

\* get_name()
get_name == "AI Detector"

\* the contexts: None, an empty dict, enable_ai False / True / None / 0, another key
Contexts ==
    {JNull, JObj(<<>>), JObj(<<Member("enable_ai", JBool(FALSE))>>),
     JObj(<<Member("enable_ai", JBool(TRUE))>>),
     JObj(<<Member("enable_ai", JNull)>>),
     JObj(<<Member("enable_ai", JInt(0))>>),
     JObj(<<Member("lang", JBool(FALSE))>>)}

\* mutant: only the API key is required
IsEnabledWithoutBaseUrl(ctx) ==
    IF ~Truthy(api_key) THEN FALSE
    ELSE IF Truthy(ctx) /\ Get(ctx, "enable_ai") = JBool(FALSE) THEN FALSE
    ELSE TRUE

is_enabled(ctx) ==
    IF ~Truthy(api_key) \/ ~Truthy(base_url) THEN FALSE
    ELSE IF Truthy(ctx) /\ Get(ctx, "enable_ai") = JBool(FALSE) THEN FALSE
    ELSE TRUE

\* telebot objects
PhotoSize(file_id) == [t |-> "PhotoSize", file_id |-> file_id]
Document(file_id, mime_type) ==
    [t |-> "Document", file_id |-> file_id, mime_type |-> mime_type]

ImagePrefix == <<"i", "m", "a", "g", "e", "/">>
ImagePng == ImagePrefix \o <<"p", "n", "g">>
VideoMp4 == <<"v", "i", "d", "e", "o", "/", "m", "p", "4">>

\* the messages: text and caption None, empty or not; photo None or its sizes,
\* smallest first; document None or a file with mime type None, image or video
Messages ==
    [text : {JNull, JStr(<<>>), JStr(<<"hi">>)},
     caption : {JNull, JStr(<<"cap">>)},
     photo : {JNull, JList(<<PhotoSize("photo_small"), PhotoSize("photo_large")>>)},
     document : {JNull, Document("doc", JNull), Document("doc", JStr(ImagePng)),
                 Document("doc", JStr(VideoMp4))}]

\* doc and doc.mime_type and doc.mime_type.startswith("image/")
IsImageDocument(doc) ==
    Truthy(doc) /\ Truthy(doc.mime_type) /\ StartsWith(doc.mime_type.s, ImagePrefix)

\* mutant: any document with a mime type counts as an image
HasImagesAnyDocument(m) ==
    IF Truthy(m.photo) THEN TRUE
    ELSE Truthy(m.document) /\ Truthy(m.document.mime_type)

_has_images(m) ==
    IF Truthy(m.photo) THEN TRUE ELSE IsImageDocument(m.document)

\* file bytes as download_file returns them (Telegram serves no empty file)
FileBytes(file_id) == [t |-> "bytes", s |-> <<file_id>>]
\* base64.b64encode(data).decode("utf-8")
Base64(data) == <<"base64">> \o data.s

ImageJpeg == ImagePrefix \o <<"j", "p", "e", "g">>

\* _to_image_part: mimetypes.guess_type("file")[0] is None
_to_image_part(data, mime_type) ==
    [type |-> "image_url",
     mime |-> PyOr(mime_type, PyOr(JNull, JStr(ImageJpeg))).s,
     payload |-> Base64(data)]

\* the outcomes of _download_file's two calls
FetchResults == {"get_file raises", "download_file raises", "bytes"}

\* what _download_file returns: the bytes, or None after a logged failure
_download_file(file_id, result) ==
    IF result = "bytes" THEN FileBytes(file_id) ELSE JNull

\* the network calls of one _download_file, with how each ended
FetchCalls(file_id, result) ==
    IF result = "get_file raises"
    THEN <<[op |-> "get_file", file_id |-> file_id, ok |-> FALSE]>>
    ELSE <<[op |-> "get_file", file_id |-> file_id, ok |-> TRUE],
           [op |-> "download_file", file_id |-> file_id, ok |-> result = "bytes"]>>

\* mutant: a failed download discards the parts collected so far
WithImageOrNone(parts, data, mime_type) ==
    IF Truthy(data) THEN Append(parts, _to_image_part(data, mime_type)) ELSE <<>>

\* if data: image_parts.append(self._to_image_part(data, mime))
WithImage(parts, data, mime_type) ==
    IF Truthy(data) THEN Append(parts, _to_image_part(data, mime_type)) ELSE parts

(***************************************************************************)
(* _build_messages                                                         *)
(***************************************************************************)
SystemText == <<"You are a strict spam filter for a Telegram relay bot. ...">>
Placeholder ==
    <<"No user text was provided. Review only the attached images for spam.">>

_as_blocks(text) == <<[type |-> "text", text |-> text]>>

_build_messages(text, parts) ==
    LET user_blocks == (IF Truthy(text) THEN _as_blocks(text.s)
                        ELSE _as_blocks(Placeholder)) \o parts
    IN <<[role |-> "system", content |-> _as_blocks(SystemText)],
         [role |-> "user", content |-> user_blocks]>>

(***************************************************************************)
(* detect                                                                  *)
(***************************************************************************)
Verdict(is_spam, evidence) == [is_spam |-> is_spam, evidence |-> evidence]
\* return False, None
NotSpam == Returns(Verdict(FALSE, JNull))

Evidence(confidence, reason) ==
    [method |-> "ai", detector |-> get_name, confidence |-> confidence,
     reason |-> reason]

\* the end of detect, from the parsed result on
Judge(result, thr) ==
    IF result.t # "obj" THEN Raises("AttributeError")
    ELSE LET spam_flag == Truthy(Get(result, "spam"))
             confidence == _safe_confidence(Get(result, "confidence"))
         IN IF ~confidence.ok THEN confidence
            ELSE IF spam_flag /\ FloatGeq(confidence.v, JFloat(thr))
                 THEN Returns(Verdict(TRUE, Evidence(confidence.v, Get(result, "reason"))))
            ELSE NotSpam

\* detect from the response of httpx.post on: how the call ends
AfterPost(resp, thr) ==
    IF resp.t = "raised" THEN NotSpam
    ELSE IF ~raise_for_status(resp).ok THEN NotSpam
    ELSE LET extracted == _extract_content(resp)
         IN IF extracted.t = "null" THEN NotSpam
            ELSE LET parsed == json_loads(extracted.s)
                 IN IF ~parsed.ok THEN NotSpam
                    ELSE Judge(parsed.v, thr)

\* the POST of detect, as the network sees it
PostCall(messages) ==
    [op |-> "post", url |-> base_url.s \o <<"/chat/completions">>,
     authorization |-> <<"Bearer ">> \o api_key.s, temperature |-> 0,
     messages |-> messages]

(***************************************************************************)
(* Response bodies the normalizer is run on.                               *)
(***************************************************************************)
\* most parts in a list-style content
MaxParts == 2

\* no member, or one member k with a value of vals
Optional(k, vals) == {<<>>} \cup {<<Member(k, v)>> : v \in vals}

\* the sequences over S of length at most n
SeqsUpTo(S, n) == UNION {[1..k -> S] : k \in 0..n}

\* {"spam": false} cut the way the list-style scenario cuts it
OpenBrace == <<"{">>
SpamFalseTail == <<"\"spam\"", ":", Space, "false", "}">>
EmptyObjectText == <<"{", "}">>
EmptyListText == <<"[", "]">>

\* the values a part's text or content key carries
PartValues == {JStr(OpenBrace), JStr(SpamFalseTail), JInt(1)}

\* the parts of a list-style content: dicts with or without text and content
\* keys, and one part that is not a dict
ContentPart ==
    {JObj(tx \o ct) : tx \in Optional("text", PartValues),
                      ct \in Optional("content", PartValues)}
        \cup {JStr(<<"x">>)}

\* what message.content can be
MessageContent ==
    {JNull, JInt(1), JObj(<<>>), JStr(<<>>), JStr(EmptyObjectText),
     JStr(<<Space, "{", "}", Newline>>)}
        \cup {JList(l) : l \in SeqsUpTo(ContentPart, MaxParts)}

\* what choice.message can be
ChoiceMessage ==
    {JNull, JList(<<>>), JStr(<<"x">>), JList(<<JInt(1)>>)}
        \cup {JObj(c) : c \in Optional("content", MessageContent)}

\* the first choice: message, content and text keys, each present or not
FirstChoice ==
    {JObj(m \o c \o x) :
        m \in Optional("message", ChoiceMessage),
        c \in Optional("content", {JNull, JStr(<<>>), JStr(EmptyListText), JInt(1)}),
        x \in Optional("text", {JStr(<<"true">>)})}

\* what the choices key can be
ChoicesValue ==
    {JNull, JList(<<>>), JStr(<<"x">>), JInt(1), JObj(<<Member("a", JNull)>>),
     JList(<<JStr(<<"x">>)>>)}
        \cup {JList(<<c>>) : c \in FirstChoice}
        \cup {JList(<<JObj(<<Member("text", JStr(EmptyObjectText))>>),
                      JObj(<<Member("text", JStr(EmptyListText))>>)>>)}

\* what response.json() can do
ResponseJson ==
    {Raises("JSONDecodeError"), Returns(JNull), Returns(JList(<<>>)),
     Returns(JStr(<<"x">>))}
        \cup {Returns(JObj(c)) : c \in Optional("choices", ChoicesValue)}

\* a 200 response carrying text as choices[0].message.content
ChatCompletion(text) ==
    HttpResponse(200, Returns(JObj(<<Member("choices", JList(<<
        JObj(<<Member("message", JObj(<<Member("content", JStr(text))>>))>>)>>))>>)))

(***************************************************************************)
(* Fenced code blocks.                                                     *)
(***************************************************************************)
\* the characters of the body strings
BodyChar == {Backtick, Newline, Space, "{", "}", "x"}

\* the spec's round-trip object
SpamAdText ==
    <<"{", "\"spam\"", ":", Space, "true", ",", Space, "\"confidence\"", ":", Space,
      "0.9", ",", Space, "\"reason\"", ":", Space, "\"ad\"", "}">>

\* the body strings B
FenceBody ==
    SeqsUpTo(BodyChar, MaxBody)
        \cup {SpamAdText, OpenBrace \o <<Newline>> \o SpamFalseTail}

\* the language tags of an opening fence line: none, or json
FenceTag == {<<>>, <<"json">>}

\* B inside a fenced block: opening fence line (with its tag), B, closing fence line
Fenced(tag, B) == Fence \o tag \o <<Newline>> \o B \o <<Newline>> \o Fence

\* what surrounds the content in the response
Padding == {<<>>, <<Space>>, <<Newline>>}

(***************************************************************************)
(* The response half of detect alone: Init draws a response that passed    *)
(* raise_for_status, HandleResponse applies _extract_content and the rest  *)
(* of detect to it, for a detector with the default threshold.             *)
(***************************************************************************)
Unused == [t |-> "unused"]
NoResult == [t |-> "none"]

\* a response of any shape
ShapeInput ==
    {[kind |-> "shape", response |-> HttpResponse(200, j), wrapped |-> FALSE,
      tag |-> <<>>, body |-> <<>>] :
        j \in ResponseJson}

\* a response whose content is B, bare or inside a fenced block
FenceInput ==
    {[kind |-> "text", response |-> ChatCompletion(B), wrapped |-> FALSE,
      tag |-> <<>>, body |-> B] :
        B \in FenceBody}
    \cup
    {[kind |-> "text", response |-> ChatCompletion(p \o Fenced(tag, B) \o p),
      wrapped |-> TRUE, tag |-> tag, body |-> B] :
        tag \in FenceTag, B \in FenceBody, p \in Padding}

InitExtract ==
    /\ arg \in ShapeInput \cup FenceInput
    /\ ret = NoResult
    /\ pc = "call"
    /\ api_key = Unused /\ base_url = Unused /\ bot = Unused
    /\ threshold = DefaultThreshold
    /\ message = Unused /\ context = Unused /\ user_text = Unused
    /\ image_parts = Unused /\ netlog = Unused /\ response = Unused
    /\ outcome = NoResult

HandleResponse ==
    /\ pc = "call"
    /\ ret' = _extract_content(arg.response)
    /\ outcome' = AfterPost(arg.response, threshold)
    /\ pc' = "done"
    /\ UNCHANGED <<detector, message, context, user_text, image_parts, netlog,
                   response, arg>>

NextExtract == HandleResponse

SpecExtract == InitExtract /\ [][NextExtract]_vars

(***************************************************************************)
(* Properties of the normalizer (checked under SpecExtract).               *)
(***************************************************************************)
\* C6: when the trimmed content is a triple-backtick fenced block wrapping a
\* body B, with or without a language tag on the opening fence line,
\* _extract_content returns B up to surrounding whitespace (nothing of B is
\* dropped) and the result parses exactly as B parses; content that does not
\* start with a fence is returned trimmed and otherwise unchanged.
FenceStrippingRoundTrip ==
    (pc = "done" /\ arg.kind = "text") =>
        IF arg.wrapped
        THEN /\ ret.t = "str"
             /\ Strip(ret.s, Whitespace) = Strip(arg.body, Whitespace)
             /\ json_loads(ret.s) = json_loads(arg.body)
        ELSE ~StartsWith(Strip(arg.body, Whitespace), Fence) =>
                 ret = JStr(Strip(arg.body, Whitespace))

\* C6 witness: the spec's object, fenced with a json tag, has been extracted
\* and parses to the object with spam, confidence and reason
FencedObjectExtracted ==
    /\ pc = "done"
    /\ arg.kind = "text" /\ arg.wrapped
    /\ arg.tag = <<"json">>
    /\ arg.body = SpamAdText
    /\ json_loads(ret.s) = Returns(JObj(<<Member("spam", JBool(TRUE)),
                                          Member("confidence", JFloat(9)),
                                          Member("reason", JStr(<<"ad">>))>>))

\* the first completion choice of the drawn response, when there is one
ClaimedHasChoice ==
    LET j == arg.response.json
    IN /\ j.ok
       /\ j.v.t = "obj"
       /\ Get(j.v, "choices").t = "list"
       /\ Get(j.v, "choices").l # <<>>
       /\ Get(j.v, "choices").l[1].t = "obj"
ClaimedChoice == Get(arg.response.json.v, "choices").l[1]

\* its message: an object, taken as empty when the key is missing or falsy
ClaimedMessageUsable == Get(ClaimedChoice, "message").t = "obj"
                            \/ ~Truthy(Get(ClaimedChoice, "message"))
ClaimedMessageContent ==
    IF Get(ClaimedChoice, "message").t = "obj"
    THEN Get(Get(ClaimedChoice, "message"), "content")
    ELSE JNull

RECURSIVE ClaimedPieces(_)
\* rule 2: per part, the text field, else the content field; other parts give nothing
ClaimedPieces(parts) ==
    IF parts = <<>> THEN <<>>
    ELSE LET p == Head(parts)
             piece == IF p.t # "obj" THEN <<>>
                      ELSE IF HasKey(p, "text") THEN <<PyStr(Get(p, "text"))>>
                      ELSE IF HasKey(p, "content") THEN <<PyStr(Get(p, "content"))>>
                      ELSE <<>>
         IN piece \o ClaimedPieces(Tail(parts))

\* the content the ordered rules select (JNull: none)
ClaimedSelection ==
    LET c == ClaimedMessageContent
        listed == c.t = "list" /\ ClaimedPieces(c.l) # <<>>
        absent == c.t = "null" \/ (c.t = "list" /\ ClaimedPieces(c.l) = <<>>)
    IN IF c.t = "str" THEN c
       ELSE IF listed THEN JStr(Join(ClaimedPieces(c.l), Newline))
       ELSE IF absent
            THEN PyOr(Get(ClaimedChoice, "content"), Get(ClaimedChoice, "text"))
       ELSE JNull

\* C8: _extract_content takes the first choice and applies the ordered rules:
\* a string message.content is used; a list message.content gives its parts'
\* text (else content) fields joined by newlines, a list with no textual part
\* counting as absent; the choice-level content or text is used only when
\* message.content is absent; with no choice, an unusable message or no rule
\* yielding a string the result is no content and detect returns
\* (False, None).  The two-part list of the scenario is extracted to a text
\* that parses to {"spam": false}.
ContentSelectionRules ==
    pc = "done" =>
        /\ IF ClaimedHasChoice /\ ClaimedMessageUsable /\ ClaimedSelection.t = "str"
           THEN ret = JStr(StripFence(ClaimedSelection.s))
           ELSE ret = JNull /\ outcome = NotSpam
        /\ (ClaimedHasChoice /\ ClaimedMessageUsable
                /\ ClaimedMessageContent
                     = JList(<<JObj(<<Member("text", JStr(OpenBrace))>>),
                               JObj(<<Member("text", JStr(SpamFalseTail))>>)>>))
           => /\ ret.t = "str"
              /\ json_loads(ret.s) = Returns(JObj(<<Member("spam", JBool(FALSE))>>))

\* C8 witness: the scenario's two-part list was the content, a choice-level
\* content was present too, and the joined parts were extracted
ListContentExtracted ==
    /\ pc = "done"
    /\ ClaimedHasChoice /\ ClaimedMessageUsable
    /\ ClaimedMessageContent
         = JList(<<JObj(<<Member("text", JStr(OpenBrace))>>),
                   JObj(<<Member("text", JStr(SpamFalseTail))>>)>>)
    /\ HasKey(ClaimedChoice, "content")
    /\ ret = JStr(OpenBrace \o <<Newline>> \o SpamFalseTail)

(***************************************************************************)
(* _safe_confidence alone: Init draws a raw value, SafeConfidence applies  *)
(* the function to it.                                                     *)
(***************************************************************************)
\* what result.get("confidence") can be: None (null or no such key), a bool,
\* a float (finite, infinite or nan), an int of any size, a str, a list, a dict
RawConfidence ==
    {JNull, JBool(TRUE), JBool(FALSE), JInf, JNegInf, JNaN, JBigInt(1), JBigInt(-1)}
        \cup {JFloat(f) : f \in (-MaxTenths)..MaxTenths}
        \cup {JInt(i) : i \in -2..2}
        \cup {JStr(s) : s \in {<<>>, <<"0.9">>, <<"1.5">>, <<"-0.5">>, <<Space, "0.9">>,
                               <<"nan">>, <<"inf">>, <<"high">>, <<"0.9", "x">>}}
        \cup {JList(<<>>), JList(<<JFloat(9)>>), JObj(<<>>),
              JObj(<<Member("confidence", JFloat(9))>>)}

InitConfidence ==
    /\ arg \in RawConfidence
    /\ ret = NoResult
    /\ pc = "call"
    /\ api_key = Unused /\ base_url = Unused /\ threshold = Unused /\ bot = Unused
    /\ message = Unused /\ context = Unused /\ user_text = Unused
    /\ image_parts = Unused /\ netlog = Unused /\ response = Unused
    /\ outcome = Unused

SafeConfidence ==
    /\ pc = "call"
    /\ ret' = _safe_confidence(arg)
    /\ pc' = "done"
    /\ UNCHANGED <<detector, message, context, user_text, image_parts, netlog,
                   response, outcome, arg>>

NextConfidence == SafeConfidence

SpecConfidence == InitConfidence /\ [][NextConfidence]_vars

\* the clamp of a number, as the claim states it: min(1, max(0, v))
ClaimedClamp(v) ==
    CASE v.t = "int" /\ v.big -> IF v.i > 0 THEN ConfidenceCeiling ELSE ConfidenceFloor
      [] v.t = "int" /\ ~v.big ->
            IF Tenths(v.i) < ConfidenceFloor THEN ConfidenceFloor
            ELSE IF Tenths(v.i) > ConfidenceCeiling THEN ConfidenceCeiling
            ELSE Tenths(v.i)
      [] v.t = "float" /\ v.cls = "inf" ->
            IF v.f > 0 THEN ConfidenceCeiling ELSE ConfidenceFloor
      [] v.t = "float" /\ v.cls = "finite" ->
            IF v.f < ConfidenceFloor THEN ConfidenceFloor
            ELSE IF v.f > ConfidenceCeiling THEN ConfidenceCeiling
            ELSE v.f

\* the values the claim calls numeric: JSON numbers (nan left aside)
ClaimedNumeric(v) == v.t = "int" \/ (v.t = "float" /\ v.cls # "nan")

\* the values the claim lists as non-numeric or missing
ClaimedNonNumeric(v) ==
    \/ v.t \in {"null", "list", "obj"}
    \/ v.t = "str" /\ PyFloat(v).ok = FALSE

\* C5 (the claim as stated; the code violates it): for every raw confidence
\* value _safe_confidence returns a value in [0, 1]; a numeric value v gives
\* min(1, max(0, v)); a non-numeric or missing value gives exactly 0.5 rather
\* than failing.
ConfidenceAlwaysClamped ==
    pc = "done" =>
        /\ ret.ok
        /\ ret.v.cls = "finite"
        /\ ConfidenceFloor <= ret.v.f /\ ret.v.f <= ConfidenceCeiling
        /\ ClaimedNumeric(arg) => ret.v.f = ClaimedClamp(arg)
        /\ ClaimedNonNumeric(arg) => ret.v.f = DefaultConfidence

(***************************************************************************)
(* The detect state machine.                                               *)
(***************************************************************************)
\* the texts the model answers with: an object with a spam, a confidence and
\* a reason member, each present or not
SpamMember ==
    {<<>>} \cup {<<"\"spam\"", ":">> \o v :
        v \in {<<"true">>, <<"false">>, <<"null">>, <<"\"false\"">>, <<"\"\"">>,
               <<"0">>, <<"1">>, <<"[", "]">>, <<"{", "}">>}}
ConfidenceMember ==
    {<<>>} \cup {<<"\"confidence\"", ":">> \o v :
        v \in {<<"0.3">>, <<"0.5">>, <<"0.9">>, <<"1.5">>, <<"-0.5">>, <<"1">>,
               <<"1000..(400 zeros)">>, <<"NaN">>, <<"null">>, <<"true">>,
               <<"\"0.9\"">>, <<"\"high\"">>, <<"[", "]">>}}
ReasonMember == <<"\"reason\"", ":", "\"ad\"">>

ObjectText(members) ==
    <<"{">> \o Join(SelectSeq(members, LAMBDA m : m # <<>>), ",") \o <<"}">>

AnswerText ==
    {ObjectText(<<s, c, ReasonMember>>) : s \in SpamMember, c \in ConfidenceMember}
        \cup {ObjectText(<<<<"\"spam\"", ":", "true">>, <<"\"confidence\"", ":", "0.9">>>>),
              Fenced(<<"json">>, SpamAdText),
              <<>>, <<"x">>, EmptyListText, <<"[", "1", "]">>, <<"true">>, <<"1">>,
              <<"null">>, <<"\"high\"">>}

\* what httpx.post can do
Responses ==
    {PostRaised("ConnectError"), PostRaised("ReadTimeout"),
     HttpResponse(500, Raises("JSONDecodeError")),
     HttpResponse(404, Returns(JObj(<<>>))),
     HttpResponse(200, Raises("JSONDecodeError")),
     HttpResponse(200, Returns(JObj(<<>>))),
     HttpResponse(200, Returns(JList(<<>>)))}
        \cup {ChatCompletion(text) : text \in AnswerText}

NoCall == [t |-> "none"]

Idle ==
    /\ pc = "idle"
    /\ message = NoCall /\ context = NoCall /\ user_text = NoCall
    /\ image_parts = <<>> /\ netlog = <<>>
    /\ response = NoCall /\ outcome = NoCall

Init ==
    /\ \E key \in ApiKeys, url \in BaseUrls, thr \in Thresholds, has_bot \in BOOLEAN :
           Constructed(key, url, thr, has_bot)
    /\ Idle
    /\ arg = Unused /\ ret = Unused

\* where _extract_image_parts goes after the photo / at its start
AfterPhoto(m) == IF IsImageDocument(m.document) THEN "document" ELSE "post"

\* detect is called: the eligibility and emptiness checks, user_text, and the
\* start of _extract_image_parts
Detect(m, ctx) ==
    /\ pc = "idle"
    /\ message' = m
    /\ context' = ctx
    /\ IF ~is_enabled(ctx) \/ ~(Truthy(m.text) \/ Truthy(m.caption) \/ _has_images(m))
       THEN /\ outcome' = NotSpam
            /\ pc' = "done"
            /\ UNCHANGED user_text
       ELSE /\ user_text' = PyOr(m.text, PyOr(m.caption, JStr(<<>>)))
            /\ pc' = IF ~bot THEN "post"
                     ELSE IF Truthy(m.photo) THEN "photo"
                     ELSE AfterPhoto(m)
            /\ UNCHANGED outcome
    /\ UNCHANGED <<detector, image_parts, netlog, response, arg, ret>>

\* _extract_image_parts, the photo: the last (largest) size is fetched
DownloadPhoto(result) ==
    /\ pc = "photo"
    /\ LET photo == message.photo.l[Len(message.photo.l)]
           data == _download_file(photo.file_id, result)
       IN /\ netlog' = netlog \o FetchCalls(photo.file_id, result)
          /\ image_parts' = WithImage(image_parts, data, JStr(ImageJpeg))
    /\ pc' = AfterPhoto(message)
    /\ UNCHANGED <<detector, message, context, user_text, response, outcome, arg, ret>>

\* _extract_image_parts, the image document
DownloadDocument(result) ==
    /\ pc = "document"
    /\ LET doc == message.document
           data == _download_file(doc.file_id, result)
       IN /\ netlog' = netlog \o FetchCalls(doc.file_id, result)
          /\ image_parts' = WithImage(image_parts, data, doc.mime_type)
    /\ pc' = "post"
    /\ UNCHANGED <<detector, message, context, user_text, response, outcome, arg, ret>>

\* _build_messages, httpx.post and everything after it
Post(resp) ==
    /\ pc = "post"
    /\ netlog' = Append(netlog, PostCall(_build_messages(user_text, image_parts)))
    /\ response' = resp
    /\ outcome' = AfterPost(resp, threshold)
    /\ pc' = "done"
    /\ UNCHANGED <<detector, message, context, user_text, image_parts, arg, ret>>

\* the call is over; the detector is ready for the next message
Return ==
    /\ pc = "done"
    /\ pc' = "idle"
    /\ message' = NoCall /\ context' = NoCall /\ user_text' = NoCall
    /\ image_parts' = <<>> /\ netlog' = <<>>
    /\ response' = NoCall /\ outcome' = NoCall
    /\ UNCHANGED <<detector, arg, ret>>

DetectContexts ==
    {JNull, JObj(<<>>), JObj(<<Member("enable_ai", JBool(FALSE))>>),
     JObj(<<Member("enable_ai", JBool(TRUE))>>)}

Next ==
    \/ \E m \in Messages, ctx \in DetectContexts : Detect(m, ctx)
    \/ \E result \in FetchResults : DownloadPhoto(result)
    \/ \E result \in FetchResults : DownloadDocument(result)
    \/ \E resp \in Responses : Post(resp)
    \/ Return

Spec == Init /\ [][Next]_vars

(***************************************************************************)
(* is_enabled alone: the orchestrator asks a constructed detector whether  *)
(* it is enabled for a context.                                            *)
(***************************************************************************)
IsEnabled(ctx) ==
    /\ pc = "idle"
    /\ context' = ctx
    /\ ret' = is_enabled(ctx)
    /\ pc' = "done"
    /\ UNCHANGED <<detector, message, user_text, image_parts, netlog, response,
                   outcome, arg>>

NextEnabled == \E ctx \in Contexts : IsEnabled(ctx)

SpecEnabled == Init /\ [][NextEnabled]_vars

\* the detector's credentials are both non-blank
CredentialsSet == api_key \notin {JNull, JStr(<<>>)} /\ base_url # JStr(<<>>)

\* the context is a mapping that sets enable_ai to false
AiDisabledBy(ctx) ==
    /\ ctx.t = "obj"
    /\ \E i \in 1..Len(ctx.m) : ctx.m[i] = Member("enable_ai", JBool(FALSE))

\* C4: is_enabled(context) is False if the API key or the base URL (with its
\* trailing slashes stripped at construction) is blank, False if the context
\* sets enable_ai to false, and True in every other case (None or empty
\* context, enable_ai not mentioned); the result depends on nothing else and
\* the call changes no field of the detector.
EligibilityRule ==
    /\ [](pc = "done" => ret = (CredentialsSet /\ ~AiDisabledBy(context)))
    /\ [][detector' = detector]_vars

\* C4 witness: valid credentials, context {enable_ai: false}, answered False
DisabledByContext ==
    /\ pc = "done"
    /\ CredentialsSet
    /\ context = JObj(<<Member("enable_ai", JBool(FALSE))>>)
    /\ ret = FALSE

(***************************************************************************)
(* Properties of detect (checked under Spec).                              *)
(***************************************************************************)
\* the POST calls of the running detect
Posts == SelectSeq(netlog, LAMBDA call : call.op = "post")

\* the response was a success whose content parsed to a JSON object
ParsedObject ==
    /\ response.t = "response"
    /\ raise_for_status(response).ok
    /\ _extract_content(response).t = "str"
    /\ json_loads(_extract_content(response).s).ok
    /\ json_loads(_extract_content(response).s).v.t = "obj"
ParsedResult == json_loads(_extract_content(response).s).v

\* C1 (the claim as stated; the code violates it): detect never propagates an
\* exception: whatever the message, the context, the image fetches and the
\* HTTP call do, it ends by returning a verdict, and a failed request gives
\* (False, None).
DetectNeverRaises ==
    pc = "done" =>
        /\ outcome.ok
        /\ (Posts # <<>> /\ (response.t = "raised" \/ ~raise_for_status(response).ok))
               => outcome = NotSpam

\* the clamped confidence of the claims: min(1, max(0, v)) for a number, and
\* what _safe_confidence makes of any other value
ClaimedConfidence(raw) ==
    IF ClaimedNumeric(raw) THEN JFloat(ClaimedClamp(raw)) ELSE _safe_confidence(raw).v

\* C2 (the claim as stated; the code violates it through C5's failure): when
\* the response parses to an object with spam = true, detect returns
\* (True, evidence) with method "ai", the detector's name and the clamped
\* confidence iff the clamped confidence >= threshold, and (False, None) when
\* it is below; a True verdict always carries evidence.
ThresholdPolicy ==
    pc = "done" =>
        /\ (outcome.ok /\ outcome.v.is_spam) => outcome.v.evidence # JNull
        /\ (Posts # <<>> /\ ParsedObject /\ Get(ParsedResult, "spam") = JBool(TRUE)) =>
               LET clamped == ClaimedConfidence(Get(ParsedResult, "confidence"))
               IN IF FloatGeq(clamped, JFloat(threshold))
                  THEN /\ outcome.ok
                       /\ outcome.v.is_spam
                       /\ outcome.v.evidence.method = "ai"
                       /\ outcome.v.evidence.detector = get_name
                       /\ outcome.v.evidence.confidence = clamped
                  ELSE outcome = NotSpam

\* the called detector is eligible, in the claim's terms
ClaimedEligible == CredentialsSet /\ ~AiDisabledBy(context)

\* the message carries text, a caption or an image attachment
ClaimedNonEmpty ==
    \/ message.text \notin {JNull, JStr(<<>>)}
    \/ message.caption \notin {JNull, JStr(<<>>)}
    \/ message.photo # JNull
    \/ /\ message.document # JNull
       /\ message.document.mime_type # JNull
       /\ StartsWith(message.document.mime_type.s, ImagePrefix)

\* C3: when the detector is not eligible, or the message has no text, no
\* caption and no image attachment, detect returns (False, None) and makes no
\* network call; every network call of an invocation happens in an eligible
\* invocation on a non-empty message, and an invocation POSTs at most once,
\* as its last call.
NoNetworkWhenIneligibleOrEmpty ==
    pc # "idle" =>
        /\ (pc = "done" /\ ~(ClaimedEligible /\ ClaimedNonEmpty))
               => (outcome = NotSpam /\ netlog = <<>>)
        /\ netlog # <<>> => (ClaimedEligible /\ ClaimedNonEmpty)
        /\ Len(Posts) <= 1
        /\ \A i \in 1..Len(netlog) : netlog[i].op = "post" => i = Len(netlog)

\* C3 witness: API key empty, base URL set, a message with text and a photo:
\* detect has returned (False, None) without any call
ShortCircuitedOnBlankKey ==
    /\ pc = "done"
    /\ api_key = JStr(<<>>) /\ base_url = JStr(<<"u">>) /\ bot
    /\ message.text = JStr(<<"hi">>) /\ message.photo # JNull
    /\ outcome = NotSpam
    /\ netlog = <<>>

\* the image block the claim expects for a fetched file
ClaimedImageBlock(file_id) ==
    [type |-> "image_url",
     mime |-> IF file_id = "photo_large" THEN ImageJpeg ELSE message.document.mime_type.s,
     payload |-> Base64(FileBytes(file_id))]

\* the files whose fetch succeeded, in fetch order
FetchedFiles ==
    LET done == SelectSeq(netlog, LAMBDA call : call.op = "download_file" /\ call.ok)
    IN [i \in 1..Len(done) |-> done[i].file_id]

\* some fetch of the running detect failed
SomeFetchFailed == \E i \in 1..Len(netlog) : netlog[i].op # "post" /\ ~netlog[i].ok

\* C7: when the fetch of an image fails, that image alone is omitted: detect
\* still issues the request, carrying the user text and one image block per
\* image whose fetch succeeded (largest photo size as image/jpeg, image
\* document with its declared type), the way the call ends is decided by the
\* response alone, and the failure itself ends nothing.
ImageFailureContained ==
    /\ (pc = "done" /\ SomeFetchFailed) =>
           /\ Len(Posts) = 1
           /\ Posts[1].messages[2].content
                = <<[type |-> "text",
                     text |-> IF message.text \notin {JNull, JStr(<<>>)} THEN message.text.s
                              ELSE IF message.caption \notin {JNull, JStr(<<>>)}
                                   THEN message.caption.s
                              ELSE Placeholder]>>
                  \o [i \in 1..Len(FetchedFiles) |-> ClaimedImageBlock(FetchedFiles[i])]
           /\ outcome = AfterPost(response, threshold)
    /\ \A i \in 1..Len(netlog) :
           netlog[i].op # "post" => netlog[i].file_id \in {"photo_large", "doc"}
    /\ SomeFetchFailed => pc \in {"document", "post", "done"}

\* C7 witness: the photo's download failed, the image document was fetched,
\* the request carried the text and the document alone, and the answer made
\* the verdict spam
DocumentSentAfterPhotoFailure ==
    /\ pc = "done"
    /\ \E i \in 1..Len(netlog) :
           netlog[i].op = "download_file" /\ netlog[i].file_id = "photo_large"
               /\ ~netlog[i].ok
    /\ FetchedFiles = <<"doc">>
    /\ Len(Posts[1].messages[2].content) = 2
    /\ Posts[1].messages[2].content[2].mime = ImagePng
    /\ outcome.ok /\ outcome.v.is_spam

\* C9 (the claim as stated; the code violates it): only the boolean value
\* true of the spam field leads to a spam verdict: a parsed object whose spam
\* field is missing, null or not a boolean never gives (True, evidence).
SpamReadAsBoolean ==
    (pc = "done" /\ Posts # <<>> /\ ParsedObject /\ outcome.ok /\ outcome.v.is_spam)
        => Get(ParsedResult, "spam") = JBool(TRUE)

\* C10 (the claim as stated; the code violates it): the user message of every
\* request is one text block followed by the image blocks; the text block is
\* the message text, else the caption, else the images-only placeholder; a
\* request whose text block is the placeholder carries at least one image
\* block.
PlaceholderCarriesImage ==
    \A i \in 1..Len(Posts) :
        LET blocks == Posts[i].messages[2].content
        IN /\ blocks # <<>>
           /\ blocks[1].type = "text"
           /\ \A j \in 2..Len(blocks) : blocks[j].type = "image_url"
           /\ blocks[1].text
                = (IF message.text \notin {JNull, JStr(<<>>)} THEN message.text.s
                   ELSE IF message.caption \notin {JNull, JStr(<<>>)}
                        THEN message.caption.s
                   ELSE Placeholder)
           /\ blocks[1].text = Placeholder => Len(blocks) >= 2

=============================================================================
